---- MODULE Spec2Model ----
(***************************************************************************)
(* Webhook delivery engine and circuit breaker of routes/chat.py.          *)
(*                                                                         *)
(* The breaker is two module globals (webhook_failures, last_failure_time) *)
(* touched without any lock by Flask request threads and by the daemon     *)
(* threads send_webhook_with_retry starts.  Every access to a global is    *)
(* one step of the thread that makes it; computation on locals is folded   *)
(* into the step that follows the access.                                  *)
(*                                                                         *)
(* A "flow" is one request handler thread and, for send_message, the retry *)
(* thread it starts when the inline attempt fails: the handler answers the *)
(* client at the hand-off and the same flow slot goes on as the retry      *)
(* thread (the handler does nothing else that touches the breaker).        *)
(*                                                                         *)
(* The handlers' storage (db/operations.py) is the variable db: the        *)
(* phone_numbers and messages tables with their id sequences.  Every query *)
(* and every commit is one step.                                           *)
(***************************************************************************)
EXTENDS Integers, Sequences, FiniteSets, TLC

VARIABLES
    webhook_failures,    \* chat.py:61  global failure counter
    last_failure_time,   \* chat.py:62  global, None or time.time() of a failure
    webhook_url,         \* config._webhook_url, "" when not configured
    now,                 \* time.time(), whole seconds
    th,                  \* per flow: program counter, arguments and locals
    db                   \* the database: phone_numbers and messages tables

vars == <<webhook_failures, last_failure_time, webhook_url, now, th, db>>

----------------------------------------------------------------------------
(* Program constants *)

MAX_FAILURES_BEFORE_CIRCUIT_BREAK == 5
CIRCUIT_BREAK_DURATION == 60
SendMessageRetries == 2
BackoffCap == 5
MinPhoneLen == 8
MAX_UPLOAD_SIZE == 50 * 1024        \* chat.py:21, in KiB
PgIntegerMax == 2 * 1024 * 1024 - 1 \* largest KiB count an INTEGER column
                                    \* of bytes holds (2^31 - 1 bytes)

(* Bounds of the model *)

MaxTime == 66          \* the clock stops here
MaxFailures == 6       \* no new request arrives once the counter is above this
MaxRetries == 3        \* largest max_retries given to send_webhook_with_retry
MaxMessages == 3       \* no message request arrives once this many are stored
MaxPhones == 5         \* no phone is created once this many ids are used

Flows == {"f1", "f2"}

\* Python's None for last_failure_time; time.time() is always positive.
None == -1

----------------------------------------------------------------------------
(* Python values that reach the envelope *)

PyNone == [ty |-> "none", s |-> ""]
PyInt == [ty |-> "int", s |-> ""]         \* a non-zero JSON number
PyCyclic == [ty |-> "cyclic", s |-> ""]   \* a value json.dumps cannot encode
Str(s) == [ty |-> "str", s |-> s]
PyBool(b) == [ty |-> "bool", s |-> IF b THEN "true" ELSE "false"]

\* bool(v)
PyTruthy(v) == \/ v.ty = "str" /\ v.s # ""
               \/ v.ty = "int"
               \/ v.ty = "cyclic"

\* `if last_failure_time` for a float-or-None
TimeTruthy(t) == t # None /\ t # 0

\* json.dumps(data, ensure_ascii=False, default=str) does not raise
Serializable(data) == \A k \in DOMAIN data : data[k].ty # "cyclic"

RequiredFields == {"event_type", "phone_number", "timestamp"}

PhoneLongEnough(n) == n >= MinPhoneLen

\* validate_webhook_data without the `len(phone) < 8` test
validate_webhook_data_NoLen(data) ==
    IF ~Serializable(data) THEN FALSE
    ELSE IF \E field \in RequiredFields :
                field \notin DOMAIN data \/ data[field] = PyNone THEN FALSE
    ELSE PyTruthy(data["phone_number"])

validate_webhook_data(data) ==
    IF ~Serializable(data) THEN FALSE
    ELSE IF \E field \in RequiredFields :
                field \notin DOMAIN data \/ data[field] = PyNone THEN FALSE
    ELSE LET phone == data["phone_number"] IN
         IF ~PyTruthy(phone) THEN FALSE
         ELSE IF phone.ty # "str" THEN FALSE       \* len() raises TypeError
         ELSE PhoneLongEnough(Len(phone.s))

\* {'event_type': .., 'phone_number': .., 'timestamp': .., **data}
Envelope(webhook_type, phone_number, data) ==
    LET base == [event_type |-> Str(webhook_type),
                 phone_number |-> phone_number,
                 timestamp |-> Str("iso")]
    IN [k \in DOMAIN base \cup DOMAIN data |->
            IF k \in DOMAIN data THEN data[k] ELSE base[k]]

----------------------------------------------------------------------------
(* Strings and attachment metadata.  File sizes are counted in KiB. *)

\* str.strip() for the blank character
RECURSIVE LStrip(_)
LStrip(s) == IF Len(s) > 0 /\ SubSeq(s, 1, 1) = " "
             THEN LStrip(SubSeq(s, 2, Len(s))) ELSE s

RECURSIVE RStrip(_)
RStrip(s) == IF Len(s) > 0 /\ SubSeq(s, Len(s), Len(s)) = " "
             THEN RStrip(SubSeq(s, 1, Len(s) - 1)) ELSE s

Strip(s) == RStrip(LStrip(s))

\* str.startswith
StartsWith(s, prefix) ==
    Len(s) >= Len(prefix) /\ SubSeq(s, 1, Len(prefix)) = prefix

\* the part of s after the last occurrence of the character c, s itself
\* when c does not occur: s.rsplit(c, 1)[-1]
RECURSIVE LastAt(_, _, _)
LastAt(s, c, i) == IF i = 0 THEN 0
                   ELSE IF SubSeq(s, i, i) = c THEN i
                   ELSE LastAt(s, c, i - 1)

AfterLast(s, c) == SubSeq(s, LastAt(s, c, Len(s)) + 1, Len(s))
Contains(s, c) == LastAt(s, c, Len(s)) > 0

\* os.path.basename
Basename(path) == AfterLast(path, "/")

\* get_file_type, chat.py:34-49, on the extensions the model uses
get_file_type(filename) ==
    LET extension == IF Contains(filename, ".") THEN AfterLast(filename, ".")
                     ELSE ""
    IN IF extension \in {"png", "jpg", "jpeg", "gif", "webp"} THEN "image"
       ELSE IF extension \in {"mp4", "avi", "mov", "wmv", "webm"} THEN "video"
       ELSE IF extension \in {"mp3", "wav", "ogg", "m4a", "aac"} THEN "audio"
       ELSE IF extension = "pdf" THEN "pdf"
       ELSE IF extension \in {"doc", "docx", "txt"} THEN "document"
       ELSE "file"

\* extract_filename_from_url, chat.py:879-889
extract_filename_from_url(url) ==
    LET filename == Basename(url)
    IN IF filename # "" /\ Contains(filename, ".") THEN filename
       ELSE "attachment"

\* the attachment_size a request carries: absent, a JSON number, or a value
\* int() rejects (a string such as "abc")
NoSize == [ty |-> "none", n |-> 0]
IntSize(n) == [ty |-> "int", n |-> n]
BadSize == [ty |-> "str", n |-> 0]

\* `original_size or 0` / bool(attachment_size)
SizeTruthy(v) == v.ty = "str" \/ (v.ty = "int" /\ v.n # 0)

\* the attachment arguments of create_message; what a request without an
\* attachment carries
NoAttachment == [url |-> PyNone, full_url |-> PyNone, name |-> PyNone,
                 type |-> PyNone, size |-> NoSize]

\* the attachment columns of a message without attachment
NoColumns == [attachment_url |-> PyNone, attachment_full_url |-> PyNone,
              attachment_name |-> PyNone, attachment_type |-> PyNone,
              attachment_size |-> None]

valid_types == {"image", "video", "audio", "pdf", "document", "file"}

\* operations.py:225-235
FallbackName(attachment_type) ==
    IF attachment_type.ty # "str" THEN "attachment"
    ELSE IF attachment_type.s = "pdf" THEN "document.pdf"
    ELSE IF attachment_type.s \in valid_types THEN attachment_type.s
    ELSE "attachment"

\* operations.py:238-245; first a cleaner that keeps the type it is given
CleanType_Raw(attachment_type) == attachment_type
CleanType(attachment_type) ==
    IF PyTruthy(attachment_type) /\ attachment_type.ty = "str"
       /\ attachment_type.s \in valid_types
    THEN attachment_type ELSE Str("file")

\* operations.py:248-255: int(attachment_size), positive or None
CleanSize(attachment_size) ==
    IF attachment_size.ty = "int" /\ attachment_size.n > 0
    THEN attachment_size.n ELSE None

\* MessageOperations._clean_attachment_data, operations.py:195-257
clean_attachment_data(a) ==
    IF ~PyTruthy(a.url) THEN NoColumns
    ELSE [attachment_url |-> Str(Strip(a.url.s)),
          attachment_full_url |-> IF PyTruthy(a.full_url) THEN a.full_url
                                  ELSE a.url,
          attachment_name |-> IF PyTruthy(a.name) THEN Str(Strip(a.name.s))
                              ELSE Str(FallbackName(a.type)),
          attachment_type |-> CleanType(a.type),
          attachment_size |-> CleanSize(a.size)]

\* messages.attachment_size is an INTEGER column (models.py:55): the INSERT
\* of a larger value is refused
IntegerOutOfRange(columns) == columns.attachment_size > PgIntegerMax

----------------------------------------------------------------------------
(* Outcomes of requests.post + raise_for_status *)

Status(c) == [kind |-> "status", code |-> c]
Timeout == [kind |-> "timeout", code |-> 0]
ConnectionError == [kind |-> "connection", code |-> 0]
OtherError == [kind |-> "exception", code |-> 0]
NoResp == [kind |-> "none", code |-> 0]

Is2xx(r) == r.kind = "status" /\ r.code >= 200 /\ r.code < 300

\* Response.raise_for_status raises HTTPError for 4xx and 5xx only
RaisesForStatus(code) == code >= 400 /\ code < 600

\* send_webhook reaches `record_webhook_result(True); return True`
PostSucceeded(r) == r.kind = "status" /\ ~RaisesForStatus(r.code)

----------------------------------------------------------------------------
(* Circuit breaker arithmetic *)

\* the comparison of chat.py:70 off by one, and turned round
WithinCooldown_Off(t, last) == (t - last) <= CIRCUIT_BREAK_DURATION
WithinCooldown_Flipped(t, last) == (t - last) > CIRCUIT_BREAK_DURATION
WithinCooldown(t, last) == (t - last) < CIRCUIT_BREAK_DURATION

\* the comparison of chat.py:69 off by one
ThresholdReached_Off(n) == n > MAX_FAILURES_BEFORE_CIRCUIT_BREAK
ThresholdReached(n) == n >= MAX_FAILURES_BEFORE_CIRCUIT_BREAK

Max(a, b) == IF a >= b THEN a ELSE b
Min(a, b) == IF a <= b THEN a ELSE b

RecordedCount(success, n) == IF success THEN Max(0, n - 1) ELSE n + 1

RECURSIVE Pow2(_)
Pow2(k) == IF k <= 0 THEN 1 ELSE 2 * Pow2(k - 1)

\* the delay of chat.py:119 without the cap
Backoff_NoCap(attempt) == Pow2(attempt)
Backoff(attempt) == Min(Pow2(attempt), BackoffCap)

----------------------------------------------------------------------------
(* Flow records *)

NoData == [message |-> PyNone]

Idle == [pc |-> "idle", op |-> "none", task |-> "request",
         phone |-> PyNone, data |-> NoData,
         res |-> FALSE, broken |-> FALSE, tmp |-> 0, arg |-> FALSE,
         site |-> "none", attempt |-> 0, max_retries |-> 0, wake |-> 0,
         resp |-> NoResp, nposts |-> 0, log |-> "none",
         http |-> 0, content |-> PyNone, phone_id |-> 0, ai_active |-> FALSE,
         message_type |-> "none", message_id |-> 0, new_ai_status |-> FALSE,
         ret |-> "none", loaded |-> {},
         att |-> NoAttachment, final |-> NoAttachment]

\* The thread is over; what send_webhook and is_circuit_broken last returned
\* stays observable (the response body, the "Circuit breaker active" log line).
Finished(t) == [Idle EXCEPT !.res = t.res, !.broken = t.broken,
                            !.log = t.log, !.http = t.http,
                            !.message_id = t.message_id,
                            !.new_ai_status = t.new_ai_status]

Set(f, t) == th' = [th EXCEPT ![f] = t]

EventType(t) == IF t.op = "send_message" THEN "message"
                ELSE IF t.op = "toggle_ai" THEN "ai_toggle"
                ELSE IF t.op = "add_phone" THEN "phone_added"
                ELSE IF t.op = "delete_phone" THEN "phone_deleted"
                ELSE "notify"

----------------------------------------------------------------------------
(* Returns: what the caller does, on its locals, with a returned value *)

\* `for attempt in range(max_retries + 1)` has another round after `attempt`;
\* first with one round too many
BudgetLeft_Off(attempt, max_retries) == attempt <= max_retries
BudgetLeft(attempt, max_retries) == attempt + 1 <= max_retries

\* Status codes of the handlers' answers
HttpOk == 200
HttpBadRequest == 400
HttpNotFound == 404
HttpError == 500

\* The handler's answer once send_webhook returned r.  First a handler that
\* reports a failed delivery as an error; the handlers answer success
\* whatever webhook_sent is.
ResponseAfterWebhook_Strict(r) == IF r THEN HttpOk ELSE HttpError
ResponseAfterWebhook(r) == HttpOk

\* send_message starts the retry thread (chat.py:391-398); first a variant
\* that starts it whatever the inline attempt returned
HandsOff_Always(op, r) == op = "send_message"
HandsOff(op, r) == op = "send_message" /\ ~r

\* send_webhook_with_retry: the thread body starts with attempt 0, no sleep.
RetryThread(t) ==
    [t EXCEPT !.task = "retry", !.attempt = 0,
              !.max_retries = SendMessageRetries, !.pc = "sw_url"]

\* _retry_webhook leaves its loop when send_webhook returned True
\* (`if success: ... break`, chat.py:124-127); first a loop without the break
LoopEnds_Never(r) == FALSE
LoopEnds(r) == r

\* send_webhook returned r to its caller at time `time`, after logging `why`:
\* "no_url" (:158), "circuit_active" (:163), "validation_failed" (:176),
\* "sent" (:212), "failed" (:219-238).
SwReturn(t, r, why, time) ==
    LET t1 == [t EXCEPT !.res = r, !.site = "none", !.arg = FALSE, !.tmp = 0,
                        !.resp = NoResp, !.log = why]
    IN IF t.task = "request"
       THEN LET t2 == [t1 EXCEPT !.http = ResponseAfterWebhook(r)]
            IN IF HandsOff(t.op, r)
               THEN RetryThread(t2)           \* chat.py:394-398
               ELSE Finished(t2)              \* response carries webhook_sent
       ELSE \* _retry_webhook, chat.py:123-133
            IF LoopEnds(r) THEN [t1 EXCEPT !.pc = "rr_read", !.arg = TRUE,
                                           !.site = "retry_ok"]
            ELSE IF BudgetLeft(t.attempt, t.max_retries)
                 THEN [t1 EXCEPT !.attempt = t.attempt + 1,
                                 !.wake = time + Backoff(t.attempt + 1),
                                 !.pc = "rt_sleep"]
                 ELSE [t1 EXCEPT !.pc = "rr_read", !.arg = FALSE,
                                 !.site = "retry_fail"]

\* send_webhook without the `if is_circuit_broken(): return False` gate
CbReturn_NoGate(t, b, time) ==
    IF t.op = "status"
    THEN [t EXCEPT !.broken = b, !.pc = "st_last"]
    ELSE IF validate_webhook_data(Envelope(EventType(t), t.phone, t.data))
         THEN [t EXCEPT !.broken = b, !.pc = "sw_post"]
         ELSE SwReturn([t EXCEPT !.broken = b], FALSE, "validation_failed",
                       time)

\* is_circuit_broken returned b.
CbReturn(t, b, time) ==
    IF t.op = "status"
    THEN [t EXCEPT !.broken = b, !.pc = "st_last"]
    ELSE IF b THEN SwReturn([t EXCEPT !.broken = TRUE], FALSE,
                            "circuit_active", time)
         ELSE IF validate_webhook_data(
                     Envelope(EventType(t), t.phone, t.data))
              THEN [t EXCEPT !.broken = FALSE, !.pc = "sw_post"]
              ELSE SwReturn([t EXCEPT !.broken = FALSE], FALSE,
                            "validation_failed", time)

\* is_circuit_broken raised TypeError (time.time() - None).  First a
\* send_webhook whose last `except Exception` clause is missing: the error
\* leaves the call and the thread ends on it.
CbRaise_Uncaught(t) == Finished([t EXCEPT !.http = HttpError, !.log = "raised"])

CbRaise(t) ==
    IF t.op = "status"
    THEN Finished([t EXCEPT !.res = FALSE])       \* chat.py:586, HTTP 500
    ELSE [t EXCEPT !.pc = "rr_read", !.arg = FALSE, !.site = "exc"]  \* :237

\* record_webhook_result returned.
RrReturn(t, time) ==
    IF t.site = "post"
    THEN SwReturn(t, t.arg, IF t.arg THEN "sent" ELSE "failed", time)
    ELSE IF t.site = "exc" THEN SwReturn(t, FALSE, "failed", time)
    ELSE Finished(t)                               \* retry thread ends

----------------------------------------------------------------------------
(* The database: db/models.py, db/operations.py *)

\* a phone_numbers row that is not there (`.first()` / `.get()` gave None)
NoRow == [id |-> 0, number |-> "", ai_active |-> FALSE]

SampleNumbers == <<"+5511999999999", "+5511888888888", "+5511777777777">>

\* db.create_all() and the sample numbers of db/connection.py:57-64.
\* `toggles` is a history: per phone id, whether the number of committed
\* toggle_ai_status calls is odd.
InitDb == [phones |-> {[id |-> i, number |-> SampleNumbers[i],
                        ai_active |-> FALSE] : i \in DOMAIN SampleNumbers},
           messages |-> {},
           phone_seq |-> Len(SampleNumbers),
           msg_seq |-> 0,
           uploads |-> {},
           toggles |-> [i \in DOMAIN SampleNumbers |-> FALSE]]

\* PhoneNumber.query.filter_by(number=number).first()
get_phone_by_number(d, number) ==
    IF \E r \in d.phones : r.number = number
    THEN CHOOSE r \in d.phones : r.number = number
    ELSE NoRow

\* PhoneNumber.query.get(phone_id)
get_phone_by_id(d, phone_id) ==
    IF \E r \in d.phones : r.id = phone_id
    THEN CHOOSE r \in d.phones : r.id = phone_id
    ELSE NoRow

\* the unique constraint on phone_numbers.number (models.py:32) rejects the
\* INSERT; first a table without it
UniqueViolation_None(d, number) == FALSE
UniqueViolation(d, number) == \E r \in d.phones : r.number = number

\* INSERT INTO phone_numbers (number, ai_active) VALUES (number, false)
InsertPhone(d, number) ==
    [d EXCEPT !.phones = @ \cup {[id |-> d.phone_seq + 1, number |-> number,
                                  ai_active |-> FALSE]},
              !.phone_seq = @ + 1,
              !.toggles = [i \in DOMAIN @ \cup {d.phone_seq + 1} |->
                              IF i \in DOMAIN @ THEN @[i] ELSE FALSE]]

\* `content or ''`, operations.py:176
StoredContent(content) == IF PyTruthy(content) THEN content ELSE Str("")

\* INSERT INTO messages (phone_number_id, content, type, attachment_*)
InsertMessage(d, phone_id, content, message_type, columns) ==
    LET row == [id |-> d.msg_seq + 1,
                phone_number_id |-> phone_id,
                content |-> StoredContent(content),
                type |-> message_type]
    IN [d EXCEPT !.messages = @ \cup
                     {[k \in DOMAIN row \cup DOMAIN columns |->
                          IF k \in DOMAIN row THEN row[k] ELSE columns[k]]},
                 !.msg_seq = @ + 1]

\* a file of `size` KiB is written into the upload directory
WriteUpload(d, size) == [d EXCEPT !.uploads = @ \cup {size}]

\* the value toggle_ai_status writes: `not phone.ai_active` on the object the
\* session already holds; first a variant that reads the row again
ToggledValue_Reread(loaded, current) == ~current
ToggledValue(loaded, current) == ~loaded

\* UPDATE phone_numbers SET ai_active = v WHERE id = phone_id
UpdateAiActive(d, phone_id, v) ==
    [d EXCEPT !.phones = {IF r.id = phone_id
                          THEN [r EXCEPT !.ai_active = v] ELSE r : r \in @},
              !.toggles = [@ EXCEPT ![phone_id] = ~@]]

\* messages.phone_number_id is a foreign key to phone_numbers.id
\* (models.py:45): the database rejects a statement that would leave a
\* message pointing at no row; first a schema without the constraint
ForeignKeyEnforced_Off == FALSE
ForeignKeyEnforced == TRUE

\* the INSERT of a message for phone_id is rejected
ForeignKeyViolation(d, phone_id) ==
    ForeignKeyEnforced /\ get_phone_by_id(d, phone_id) = NoRow

\* phone.messages as the session loads it for the cascade (models.py:36)
MessagesOf(d, phone_id) ==
    {m.id : m \in {x \in d.messages : x.phone_number_id = phone_id}}

\* the DELETE of the phone row is rejected: a message that the cascade did
\* not load still references it
DeleteRestricted(d, phone_id, loaded) ==
    ForeignKeyEnforced /\ MessagesOf(d, phone_id) \ loaded # {}

\* DELETE FROM messages WHERE id IN loaded; DELETE FROM phone_numbers
DeletePhone(d, phone_id, loaded) ==
    [d EXCEPT !.messages = {m \in @ : m.id \notin loaded},
              !.phones = {r \in @ : r.id # phone_id}]

\* chat.py:338; first the two kinds swapped
MessageType_Swapped(ai_active) == IF ai_active THEN "user" ELSE "ai"
MessageType(ai_active) == IF ai_active THEN "ai" ELSE "user"

----------------------------------------------------------------------------
(* Requests *)

Accepting == webhook_failures <= MaxFailures

\* POST /chat/send-message, after the message row is stored (chat.py:389)
StartSendMessage(f, phone, data) ==
    /\ th[f].pc = "idle"
    /\ Accepting
    /\ PyTruthy(phone)                            \* chat.py:321
    /\ Set(f, [Idle EXCEPT !.op = "send_message", !.phone = phone,
                           !.data = data, !.pc = "sw_url"])
    /\ UNCHANGED <<webhook_failures, last_failure_time, webhook_url, now, db>>

\* toggle_ai / add_phone / delete_phone / test_webhook: one send_webhook call
StartNotify(f, phone, data) ==
    /\ th[f].pc = "idle"
    /\ Accepting
    /\ Set(f, [Idle EXCEPT !.op = "notify", !.phone = phone,
                           !.data = data, !.pc = "sw_url"])
    /\ UNCHANGED <<webhook_failures, last_failure_time, webhook_url, now, db>>

\* GET /chat/webhook-status
StartStatus(f) ==
    /\ th[f].pc = "idle"
    /\ Set(f, [Idle EXCEPT !.op = "status", !.pc = "cb_failures"])
    /\ UNCHANGED <<webhook_failures, last_failure_time, webhook_url, now, db>>

\* send_webhook_with_retry(webhook_type, phone_number, data, max_retries)
\* called on its own: the thread is started and runs _retry_webhook.
StartRetry(f, phone, data, max_retries) ==
    /\ th[f].pc = "idle"
    /\ Accepting
    /\ Set(f, [RetryThread([Idle EXCEPT !.op = "retry", !.phone = phone,
                                        !.data = data])
                  EXCEPT !.max_retries = max_retries])
    /\ UNCHANGED <<webhook_failures, last_failure_time, webhook_url, now, db>>

\* POST /chat/reset-webhook-circuit
StartReset(f) ==
    /\ th[f].pc = "idle"
    /\ Set(f, [Idle EXCEPT !.op = "reset", !.pc = "rs_failures"])
    /\ UNCHANGED <<webhook_failures, last_failure_time, webhook_url, now, db>>

----------------------------------------------------------------------------
(* send_webhook *)

\* chat.py:156-159
SwUrl(f) ==
    /\ th[f].pc = "sw_url"
    /\ LET t == [th[f] EXCEPT !.broken = FALSE]
       IN Set(f, IF webhook_url = "" THEN SwReturn(t, FALSE, "no_url", now)
                 ELSE [t EXCEPT !.pc = "cb_failures"])
    /\ UNCHANGED <<webhook_failures, last_failure_time, webhook_url, now, db>>

\* chat.py:200 requests.post is entered: the request is on the wire
SwPost(f) ==
    /\ th[f].pc = "sw_post"
    /\ Set(f, [th[f] EXCEPT !.pc = "sw_wait",
                            !.nposts = th[f].nposts + 1])
    /\ UNCHANGED <<webhook_failures, last_failure_time, webhook_url, now, db>>

\* chat.py:200-240 the POST ends with `outcome`
SwResponse(f, outcome) ==
    /\ th[f].pc = "sw_wait"
    /\ Set(f, [th[f] EXCEPT !.resp = outcome, !.arg = PostSucceeded(outcome),
                            !.site = "post", !.pc = "rr_read"])
    /\ UNCHANGED <<webhook_failures, last_failure_time, webhook_url, now, db>>

----------------------------------------------------------------------------
(* is_circuit_broken, chat.py:66-76 *)

CbFailures(f) ==
    /\ th[f].pc = "cb_failures"
    /\ Set(f, IF ThresholdReached(webhook_failures)
              THEN [th[f] EXCEPT !.pc = "cb_last"]
              ELSE CbReturn(th[f], FALSE, now))
    /\ UNCHANGED <<webhook_failures, last_failure_time, webhook_url, now, db>>

CbLast(f) ==
    /\ th[f].pc = "cb_last"
    /\ Set(f, IF TimeTruthy(last_failure_time)
              THEN [th[f] EXCEPT !.pc = "cb_time"]
              ELSE [th[f] EXCEPT !.pc = "cb_reset_failures"])
    /\ UNCHANGED <<webhook_failures, last_failure_time, webhook_url, now, db>>

CbTime(f) ==
    /\ th[f].pc = "cb_time"
    /\ Set(f, IF last_failure_time = None THEN CbRaise(th[f])
              ELSE IF WithinCooldown(now, last_failure_time)
                   THEN CbReturn(th[f], TRUE, now)
                   ELSE [th[f] EXCEPT !.pc = "cb_reset_failures"])
    /\ UNCHANGED <<webhook_failures, last_failure_time, webhook_url, now, db>>

CbResetFailures(f) ==
    /\ th[f].pc = "cb_reset_failures"
    /\ webhook_failures' = 0
    /\ Set(f, [th[f] EXCEPT !.pc = "cb_reset_time"])
    /\ UNCHANGED <<last_failure_time, webhook_url, now, db>>

CbResetTime(f) ==
    /\ th[f].pc = "cb_reset_time"
    /\ last_failure_time' = None
    /\ Set(f, CbReturn(th[f], FALSE, now))
    /\ UNCHANGED <<webhook_failures, webhook_url, now, db>>

----------------------------------------------------------------------------
(* record_webhook_result, chat.py:78-85 *)

RrRead(f) ==
    /\ th[f].pc = "rr_read"
    /\ Set(f, [th[f] EXCEPT !.tmp = webhook_failures, !.pc = "rr_write"])
    /\ UNCHANGED <<webhook_failures, last_failure_time, webhook_url, now, db>>

RrWrite(f) ==
    /\ th[f].pc = "rr_write"
    /\ webhook_failures' = RecordedCount(th[f].arg, th[f].tmp)
    /\ Set(f, IF th[f].arg THEN RrReturn(th[f], now)
              ELSE [th[f] EXCEPT !.pc = "rr_stamp"])
    /\ UNCHANGED <<last_failure_time, webhook_url, now, db>>

RrStamp(f) ==
    /\ th[f].pc = "rr_stamp"
    /\ last_failure_time' = now
    /\ Set(f, RrReturn(th[f], now))
    /\ UNCHANGED <<webhook_failures, webhook_url, now, db>>

----------------------------------------------------------------------------
(* _retry_webhook: time.sleep(delay) is over, chat.py:121-123 *)

RtWake(f) ==
    /\ th[f].pc = "rt_sleep"
    /\ now >= th[f].wake
    /\ Set(f, [th[f] EXCEPT !.pc = "sw_url", !.wake = 0])
    /\ UNCHANGED <<webhook_failures, last_failure_time, webhook_url, now, db>>

----------------------------------------------------------------------------
(* webhook_status after is_circuit_broken(), chat.py:569-584 *)

StLast(f) ==
    /\ th[f].pc = "st_last"
    /\ Set(f, IF TimeTruthy(last_failure_time)
              THEN [th[f] EXCEPT !.pc = "st_time"]
              ELSE [th[f] EXCEPT !.pc = "st_count"])
    /\ UNCHANGED <<webhook_failures, last_failure_time, webhook_url, now, db>>

StTime(f) ==
    /\ th[f].pc = "st_time"
    /\ Set(f, IF last_failure_time = None THEN CbRaise(th[f])
              ELSE [th[f] EXCEPT !.pc = "st_count"])
    /\ UNCHANGED <<webhook_failures, last_failure_time, webhook_url, now, db>>

StCount(f) ==
    /\ th[f].pc = "st_count"
    /\ Set(f, Finished([th[f] EXCEPT !.res = th[f].broken]))
    /\ UNCHANGED <<webhook_failures, last_failure_time, webhook_url, now, db>>

----------------------------------------------------------------------------
(* reset_webhook_circuit, chat.py:595-597 *)

\* the counter reset_webhook_circuit writes (chat.py:596), whatever the
\* counter was; first a reset that only acts on a counter at the threshold
ResetCount_IfOpen(n) == IF ThresholdReached(n) THEN 0 ELSE n
ResetCount(n) == 0

RsFailures(f) ==
    /\ th[f].pc = "rs_failures"
    /\ webhook_failures' = ResetCount(webhook_failures)
    /\ Set(f, [th[f] EXCEPT !.pc = "rs_time"])
    /\ UNCHANGED <<last_failure_time, webhook_url, now, db>>

RsTime(f) ==
    /\ th[f].pc = "rs_time"
    /\ last_failure_time' = None
    /\ Set(f, Finished(th[f]))
    /\ UNCHANGED <<webhook_failures, webhook_url, now, db>>

----------------------------------------------------------------------------
(* send_message before the webhook, chat.py:297-358 *)

Answer(t, status) == Finished([t EXCEPT !.http = status])

\* the handlers' `if not content and not attachment_url`
NothingToStore(content, a) == ~PyTruthy(content) /\ ~PyTruthy(a.url)

ReqSendMessage(f, phone, content, a) ==
    /\ th[f].pc = "idle"
    /\ Accepting
    /\ db.msg_seq < MaxMessages
    /\ Set(f, IF ~PyTruthy(phone) \/ NothingToStore(content, a)  \* :321, :325
              THEN Answer(Idle, HttpBadRequest)
              ELSE [Idle EXCEPT !.op = "send_message", !.phone = phone,
                                !.content = content, !.att = a, !.final = a,
                                !.pc = "sm_lookup"])
    /\ UNCHANGED <<webhook_failures, last_failure_time, webhook_url, now, db>>

\* chat.py:330-338
SmLookup(f) ==
    /\ th[f].pc = "sm_lookup"
    /\ LET row == get_phone_by_number(db, th[f].phone.s)
       IN Set(f, IF row = NoRow THEN Answer(th[f], HttpNotFound)
                 ELSE [th[f] EXCEPT !.phone_id = row.id,
                                    !.ai_active = row.ai_active,
                                    !.message_type =
                                        MessageType(row.ai_active),
                                    !.pc = "cm_lookup"])
    /\ UNCHANGED <<webhook_failures, last_failure_time, webhook_url, now, db>>

\* chat.py:354-358 without the `if not message` answer
SmStored_NoCheck(t, stored, id) ==
    [t EXCEPT !.message_id = IF stored THEN id ELSE 0, !.pc = "sm_reload"]

\* chat.py:349-358: create_message returned (a message, or None / raised)
SmStored(t, stored, id) ==
    IF stored
    THEN [t EXCEPT !.message_id = id, !.pc = "sm_reload"]
    ELSE Answer(t, HttpError)

\* chat.py:367-389: webhook_data is built.  The commit of create_message
\* has expired `phone` in the session, so `phone.ai_active` (chat.py:370)
\* selects the row again; message_type is the local of chat.py:338.  When
\* the row is gone the SELECT raises, chat.py:404-411 fails to start a retry
\* (webhook_data is unbound) and the handler answers without a webhook.
SmReload(f) ==
    /\ th[f].pc = "sm_reload"
    /\ LET row == get_phone_by_id(db, th[f].phone_id)
       IN Set(f, IF row = NoRow THEN Answer(th[f], HttpOk)
                 ELSE [th[f] EXCEPT
                          !.data = [message |-> th[f].content,
                                    message_type |-> Str(th[f].message_type),
                                    ai_active |-> PyBool(row.ai_active)],
                          !.pc = "sw_url"])
    /\ UNCHANGED <<webhook_failures, last_failure_time, webhook_url, now, db>>

\* operations.py:174-193 called from chat.py:344: the INSERT and its commit;
\* `fault` is a storage error at the commit
SmCreate(f, fault) ==
    /\ th[f].pc = "sm_create"
    /\ LET columns == clean_attachment_data(th[f].final)
           stored == /\ ~fault
                     /\ ~ForeignKeyViolation(db, th[f].phone_id)
                     /\ ~IntegerOutOfRange(columns)
       IN /\ db' = IF stored
                   THEN InsertMessage(db, th[f].phone_id, th[f].content,
                                      th[f].message_type, columns)
                   ELSE db                                     \* rollback
          /\ Set(f, SmStored(th[f], stored, db.msg_seq + 1))
    /\ UNCHANGED <<webhook_failures, last_failure_time, webhook_url, now>>

\* operations.py:159-165: create_message looks the phone up again and
\* creates it when it is missing
CmLookup(f) ==
    /\ th[f].pc = "cm_lookup"
    /\ LET row == get_phone_by_number(db, th[f].phone.s)
       IN Set(f, IF NothingToStore(th[f].content, th[f].final)  \* :154
                 THEN IF th[f].op = "send_message"
                      THEN SmStored(th[f], FALSE, 0)
                      ELSE Answer(th[f], HttpError)
                 ELSE IF row # NoRow
                 THEN [th[f] EXCEPT !.phone_id = row.id,
                                    !.pc = IF th[f].op = "send_message"
                                           THEN "sm_create" ELSE "rc_create"]
                 ELSE [th[f] EXCEPT !.ret = "create_message",
                                    !.pc = "cp_lookup"])
    /\ UNCHANGED <<webhook_failures, last_failure_time, webhook_url, now, db>>

----------------------------------------------------------------------------
(* PhoneOperations.create_phone_number, operations.py:76-92 *)

\* receive_message once it has the phone: the attachment block of
\* chat.py:790 is entered only with an attachment_url
AfterPhone(t) == IF PyTruthy(t.att.url) THEN "rc_attach" ELSE "cm_lookup"

\* create_phone_number returned `row` (NoRow for None) to its caller
CpReturn(t, row) ==
    IF t.ret = "create_message"                       \* operations.py:162-165
    THEN IF row = NoRow
         THEN IF t.op = "send_message" THEN SmStored(t, FALSE, 0)
              ELSE Answer(t, HttpError)               \* chat.py:863
         ELSE [t EXCEPT !.phone_id = row.id,
                        !.pc = IF t.op = "send_message"
                               THEN "sm_create" ELSE "rc_create"]
    ELSE IF row = NoRow THEN Answer(t, HttpError)     \* chat.py:555, 780
    ELSE IF t.op = "add_phone"
         THEN [t EXCEPT !.phone_id = row.id,          \* chat.py:536-542
                        !.data = [phone_id |-> PyInt,
                                  ai_active |-> PyBool(row.ai_active)],
                        !.pc = "sw_url"]
         ELSE [t EXCEPT !.phone_id = row.id, !.pc = AfterPhone(t)]

\* operations.py:80-82
CpLookup(f) ==
    /\ th[f].pc = "cp_lookup"
    /\ LET row == get_phone_by_number(db, th[f].phone.s)
       IN Set(f, IF row # NoRow THEN CpReturn(th[f], row)
                 ELSE [th[f] EXCEPT !.pc = "cp_insert"])
    /\ UNCHANGED <<webhook_failures, last_failure_time, webhook_url, now, db>>

\* operations.py:84-92
CpInsert(f) ==
    /\ th[f].pc = "cp_insert"
    /\ IF UniqueViolation(db, th[f].phone.s)
       THEN /\ db' = db                               \* rollback
            /\ Set(f, CpReturn(th[f], NoRow))
       ELSE /\ db' = InsertPhone(db, th[f].phone.s)
            /\ Set(f, CpReturn(th[f], [id |-> db.phone_seq + 1,
                                       number |-> th[f].phone.s,
                                       ai_active |-> FALSE]))
    /\ UNCHANGED <<webhook_failures, last_failure_time, webhook_url, now>>

\* POST /chat/add-phone, chat.py:525-533
ReqAddPhone(f, number) ==
    /\ th[f].pc = "idle"
    /\ Accepting
    /\ db.phone_seq < MaxPhones
    /\ Set(f, IF ~PyTruthy(number) THEN Answer(Idle, HttpBadRequest)
              ELSE [Idle EXCEPT !.op = "add_phone", !.phone = number,
                                !.ret = "handler", !.pc = "cp_lookup"])
    /\ UNCHANGED <<webhook_failures, last_failure_time, webhook_url, now, db>>

----------------------------------------------------------------------------
(* receive_message, chat.py:752-877 (no attachment) *)

\* the request carries no attachment_full_url (chat.py:758-761)
ReqReceive(f, phone, content, a) ==
    /\ th[f].pc = "idle"
    /\ db.msg_seq < MaxMessages
    /\ db.phone_seq < MaxPhones
    /\ a.full_url = PyNone
    /\ Set(f, IF ~PyTruthy(phone) \/ NothingToStore(content, a)  \* :768, :771
              THEN Answer(Idle, HttpBadRequest)
              ELSE [Idle EXCEPT !.op = "receive", !.phone = phone,
                                !.content = content, !.att = a,
                                !.pc = "rc_lookup"])
    /\ UNCHANGED <<webhook_failures, last_failure_time, webhook_url, now, db>>

\* chat.py:775-778
RcLookup(f) ==
    /\ th[f].pc = "rc_lookup"
    /\ LET row == get_phone_by_number(db, th[f].phone.s)
       IN Set(f, IF row # NoRow
                 THEN [th[f] EXCEPT !.phone_id = row.id,
                                    !.pc = AfterPhone(th[f])]
                 ELSE [th[f] EXCEPT !.ret = "handler", !.pc = "cp_lookup"])
    /\ UNCHANGED <<webhook_failures, last_failure_time, webhook_url, now, db>>

\* What requests.get and the body stream give download_attachment_enhanced:
\* a network error; or a response with its content-length header (None when
\* absent), the file name the response suggests and a body of `body` KiB,
\* read to the end ("ok") or broken off by an exception after `body` KiB
\* were written ("cut").
NetworkError == [kind |-> "error", content_length |-> None,
                 filename |-> "", body |-> 0]
Response(kind, content_length, filename, body) ==
    [kind |-> kind, content_length |-> content_length,
     filename |-> filename, body |-> body]

ALLOWED_EXTENSIONS == {"png", "jpg", "jpeg", "gif", "webp",
                       "mp4", "avi", "mov", "wmv", "webm",
                       "mp3", "wav", "ogg", "m4a", "aac",
                       "pdf", "doc", "docx", "txt", "zip", "rar"}

\* chat.py:30-32
allowed_file(filename) ==
    Contains(filename, ".") /\ AfterLast(filename, ".") \in ALLOWED_EXTENSIONS

\* werkzeug's secure_filename on the names of the model: blanks removed
secure_filename(name) == Strip(name)

\* get_extension_from_type, chat.py:978-988
get_extension_from_type(file_type) ==
    IF file_type = "image" THEN "jpg"
    ELSE IF file_type = "video" THEN "mp4"
    ELSE IF file_type = "audio" THEN "mp3"
    ELSE IF file_type = "pdf" THEN "pdf"
    ELSE IF file_type = "document" THEN "doc"
    ELSE "bin"

\* the size test of chat.py:912: on the declared size, whatever the body is
TooLarge(declared, body) == declared > MAX_UPLOAD_SIZE

UploadedUrl == "/chat/uploads/0a1b_20260101_000000"

\* download_attachment_enhanced, chat.py:891-976.  `written` is the size of
\* the file it left in the upload directory, None when it wrote none.
DownloadFailed(written) ==
    [success |-> FALSE, written |-> written, a |-> NoAttachment]

download_attachment_enhanced(url, original_filename, original_type, original_size, o) ==
    IF o.kind = "error" THEN DownloadFailed(None)               \* :905-906
    ELSE IF o.content_length = None /\ original_size.ty = "str"
    THEN DownloadFailed(None)                            \* :909, int() raises
    ELSE
    LET declared == IF o.content_length # None THEN o.content_length
                    ELSE IF SizeTruthy(original_size) THEN original_size.n
                    ELSE 0
        named == IF PyTruthy(original_filename)
                 THEN secure_filename(original_filename.s) ELSE o.filename
        refused == Contains(named, ".") /\ ~allowed_file(named)
        untrusted == ~PyTruthy(original_type) \/ original_type.s = "file"
        filename == IF refused
                    THEN "attachment." \o
                             get_extension_from_type(original_type.s)
                    ELSE named
        file_extension == IF Contains(filename, ".")
                          THEN AfterLast(filename, ".") ELSE "bin"
        file_url == UploadedUrl \o "." \o file_extension
    IN IF TooLarge(declared, o.body) THEN DownloadFailed(None)   \* :912-916
       ELSE IF refused /\ untrusted THEN DownloadFailed(None)    \* :925-931
       ELSE IF o.kind = "cut" THEN DownloadFailed(o.body)        \* :942-945
       ELSE [success |-> TRUE, written |-> o.body,
             a |-> [url |-> Str(file_url),
                    full_url |-> Str("http://localhost:5000" \o file_url),
                    name |-> IF PyTruthy(original_filename)
                             THEN original_filename ELSE Str(filename),
                    type |-> IF PyTruthy(original_type) THEN original_type
                             ELSE Str(get_file_type(filename)),
                    size |-> IntSize(o.body)]]

\* requests accepts the url (blanks in front are dropped, a scheme is needed)
Fetchable(url) == StartsWith(LStrip(url), "http")

\* chat.py:790-854: the attachment block of receive_message
RcAttach(f, o) ==
    /\ th[f].pc = "rc_attach"
    /\ LET a == th[f].att
           url == a.url.s
           local == StartsWith(url, "/chat/uploads/")
           name == IF PyTruthy(a.name) THEN a.name ELSE Str(Basename(url))
           r == download_attachment_enhanced(url, a.name, a.type, a.size, o)
           kept == [url |-> a.url, full_url |-> a.url,          \* :832-836
                    name |-> IF PyTruthy(a.name) THEN a.name
                             ELSE Str(extract_filename_from_url(url)),
                    type |-> IF PyTruthy(a.type) THEN a.type
                             ELSE Str("file"),
                    size |-> a.size]
       IN /\ local \/ Fetchable(url) \/ o.kind = "error"
          /\ local => o.kind # "cut"
          /\ Set(f, [th[f] EXCEPT
                 !.pc = "cm_lookup",
                 !.final =
                     IF local
                     THEN [url |-> a.url,                        \* :796-806
                           full_url |-> Str("http://host" \o url),
                           name |-> name,
                           type |-> IF PyTruthy(a.type) THEN a.type
                                    ELSE Str(get_file_type(name.s)),
                           size |-> IF o.kind = "ok" THEN IntSize(o.body)
                                    ELSE NoSize]
                     ELSE IF r.success THEN r.a ELSE kept])
          /\ db' = IF ~local /\ r.written # None
                   THEN WriteUpload(db, r.written) ELSE db
    /\ UNCHANGED <<webhook_failures, last_failure_time, webhook_url, now>>

\* operations.py:174-193 called from chat.py:857 with 'lead', and the
\* answer of chat.py:863-873
RcCreate(f, fault) ==
    /\ th[f].pc = "rc_create"
    /\ LET columns == clean_attachment_data(th[f].final)
           stored == /\ ~fault
                     /\ ~ForeignKeyViolation(db, th[f].phone_id)
                     /\ ~IntegerOutOfRange(columns)
       IN /\ db' = IF stored
                   THEN InsertMessage(db, th[f].phone_id, th[f].content,
                                      "lead", columns)
                   ELSE db                                     \* rollback
          /\ Set(f, IF ~stored THEN Answer(th[f], HttpError)
                    ELSE Answer([th[f] EXCEPT !.message_id = db.msg_seq + 1,
                                              !.message_type = "lead"],
                                HttpOk))
    /\ UNCHANGED <<webhook_failures, last_failure_time, webhook_url, now>>

----------------------------------------------------------------------------
(* toggle_ai, chat.py:478-514, and toggle_ai_status, operations.py:60-74 *)

ReqToggleAi(f, phone_id) ==
    /\ th[f].pc = "idle"
    /\ Accepting
    /\ Set(f, [Idle EXCEPT !.op = "toggle_ai", !.phone_id = phone_id,
                           !.pc = "tg_read"])
    /\ UNCHANGED <<webhook_failures, last_failure_time, webhook_url, now, db>>

\* chat.py:482-487: the row is loaded into the session
TgRead(f) ==
    /\ th[f].pc = "tg_read"
    /\ LET row == get_phone_by_id(db, th[f].phone_id)
       IN Set(f, IF row = NoRow THEN Answer(th[f], HttpNotFound)
                 ELSE [th[f] EXCEPT !.ai_active = row.ai_active,
                                    !.phone = Str(row.number),
                                    !.pc = "tg_commit"])
    /\ UNCHANGED <<webhook_failures, last_failure_time, webhook_url, now, db>>

\* operations.py:64-69 (query.get finds the loaded object, the commit writes
\* its negated flag) and chat.py:491-507
TgCommit(f, fault) ==
    /\ th[f].pc = "tg_commit"
    /\ LET current == get_phone_by_id(db, th[f].phone_id).ai_active
           previous_ai_status == th[f].ai_active
           new_ai_status == ~previous_ai_status
           \* the UPDATE matches no row: the commit raises
           gone == get_phone_by_id(db, th[f].phone_id) = NoRow
       IN IF fault \/ gone
          THEN /\ db' = db
               /\ Set(f, Answer(th[f], HttpError))
          ELSE /\ db' = UpdateAiActive(db, th[f].phone_id,
                            ToggledValue(th[f].ai_active, current))
               /\ Set(f, [th[f] EXCEPT
                            !.new_ai_status = new_ai_status,
                            !.data = [previous_status |->
                                          PyBool(previous_ai_status),
                                      new_status |-> PyBool(new_ai_status)],
                            !.pc = "sw_url"])
    /\ UNCHANGED <<webhook_failures, last_failure_time, webhook_url, now>>

----------------------------------------------------------------------------
(* delete_phone, chat.py:1094-1132 and operations.py:94-108 *)

ReqDeletePhone(f, phone_id) ==
    /\ th[f].pc = "idle"
    /\ Accepting
    /\ Set(f, [Idle EXCEPT !.op = "delete_phone", !.phone_id = phone_id,
                           !.pc = "dl_read"])
    /\ UNCHANGED <<webhook_failures, last_failure_time, webhook_url, now, db>>

\* chat.py:1102-1106: the row is loaded into the session
DlRead(f) ==
    /\ th[f].pc = "dl_read"
    /\ LET row == get_phone_by_id(db, th[f].phone_id)
       IN Set(f, IF row = NoRow THEN Answer(th[f], HttpNotFound)
                 ELSE [th[f] EXCEPT !.phone = Str(row.number),
                                    !.pc = "dl_load"])
    /\ UNCHANGED <<webhook_failures, last_failure_time, webhook_url, now, db>>

\* operations.py:98-100: session.delete(phone) loads phone.messages, the
\* rows the cascade will delete
DlLoad(f) ==
    /\ th[f].pc = "dl_load"
    /\ Set(f, [th[f] EXCEPT !.loaded = MessagesOf(db, th[f].phone_id),
                            !.pc = "dl_commit"])
    /\ UNCHANGED <<webhook_failures, last_failure_time, webhook_url, now, db>>

\* operations.py:101-108: the commit deletes the loaded messages and the
\* phone row, or is rolled back; chat.py:1110-1122
DlCommit(f, fault) ==
    /\ th[f].pc = "dl_commit"
    /\ IF fault \/ DeleteRestricted(db, th[f].phone_id, th[f].loaded)
       THEN /\ db' = db
            /\ Set(f, Answer(th[f], HttpError))
       ELSE /\ db' = DeletePhone(db, th[f].phone_id, th[f].loaded)
            /\ Set(f, [th[f] EXCEPT
                         !.data = [phone_id |-> PyInt,
                                   deleted_by |-> Str("user"),
                                   messages_deleted |-> PyBool(TRUE)],
                         !.pc = "sw_url"])
    /\ UNCHANGED <<webhook_failures, last_failure_time, webhook_url, now>>

----------------------------------------------------------------------------
(* migrate_message_types.py, run by an operator against the same database *)

\* UPDATE messages SET type = to WHERE type = from
UpdateType(d, from, to) ==
    [d EXCEPT !.messages = {IF m.type = from THEN [m EXCEPT !.type = to]
                            ELSE m : m \in @}]

\* migrate_message_types(): nothing to do without 'ai' messages (:72-75);
\* `confirm` is the operator's answer to the prompt (:78-81)
MigrateMessageTypes(confirm) ==
    /\ \E m \in db.messages : m.type = "ai"
    /\ db' = IF confirm THEN UpdateType(db, "ai", "lead") ELSE db
    /\ UNCHANGED <<webhook_failures, last_failure_time, webhook_url, now, th>>

\* rollback_migration(), :142-164
RollbackMigration(confirm) ==
    /\ \E m \in db.messages : m.type = "lead"
    /\ db' = IF confirm THEN UpdateType(db, "lead", "ai") ELSE db
    /\ UNCHANGED <<webhook_failures, last_failure_time, webhook_url, now, th>>

----------------------------------------------------------------------------
(* Environment *)

\* the wall clock advances by d seconds
Tick(d) ==
    /\ now + d <= MaxTime
    /\ now' = now + d
    /\ UNCHANGED <<webhook_failures, last_failure_time, webhook_url, th, db>>

\* settings page stores a new URL (config.webhook_url setter)
SetWebhookUrl(url) ==
    /\ url # webhook_url
    /\ webhook_url' = url
    /\ UNCHANGED <<webhook_failures, last_failure_time, now, th, db>>

----------------------------------------------------------------------------
(* Specifications *)

Urls == {"", "http://hook"}

Outcomes == {Status(200), Status(204), Status(101), Status(302),
             Status(404), Status(500), Timeout, ConnectionError, OtherError}

Phones == {PyNone, PyInt, Str(""), Str("1234567"), Str("12345678")}

Payloads == {[message |-> Str("hello")],
             [message |-> PyCyclic],
             [message |-> Str("hello"), phone_number |-> PyNone],
             [message |-> Str("hello"), phone_number |-> Str("+5511999999999")],
             [message |-> Str("hello"), timestamp |-> PyNone],
             [message |-> Str("hello"), event_type |-> PyNone]}

Init ==
    /\ webhook_failures = 0
    /\ last_failure_time = None
    /\ webhook_url \in Urls
    /\ now = 2
    /\ th = [f \in Flows |-> Idle]
    /\ db = InitDb

\* the endpoint URL is set when the process starts
InitConfigured == Init /\ webhook_url # ""

Step(f, outcomes) ==
    \/ SwUrl(f) \/ SwPost(f) \/ (\E o \in outcomes : SwResponse(f, o))
    \/ CbFailures(f) \/ CbLast(f) \/ CbTime(f)
    \/ CbResetFailures(f) \/ CbResetTime(f)
    \/ RrRead(f) \/ RrWrite(f) \/ RrStamp(f)
    \/ RtWake(f)
    \/ StLast(f) \/ StTime(f) \/ StCount(f)
    \/ RsFailures(f) \/ RsTime(f)

\* One flow at a time: the breaker as a sequential program sees it.
SeqFlow == "f1"
SeqPhones == {Str("12345678")}
SeqPayloads == {[message |-> Str("hello")]}
SeqTicks == {2, 58}

NextSeq ==
    \/ \E p \in SeqPhones, d \in SeqPayloads : StartSendMessage(SeqFlow, p, d)
    \/ \E p \in SeqPhones, d \in SeqPayloads : StartNotify(SeqFlow, p, d)
    \/ StartStatus(SeqFlow)
    \/ StartReset(SeqFlow)
    \/ Step(SeqFlow, Outcomes)
    \/ \E d \in SeqTicks : Tick(d)

SpecSeq == InitConfigured /\ [][NextSeq]_vars

\* One flow, every kind of argument.
ArgTicks == {20}

NextArgs ==
    \/ \E p \in Phones, d \in Payloads : StartSendMessage(SeqFlow, p, d)
    \/ \E p \in Phones, d \in Payloads : StartNotify(SeqFlow, p, d)
    \/ StartStatus(SeqFlow)
    \/ StartReset(SeqFlow)
    \/ Step(SeqFlow, Outcomes)
    \/ \E d \in ArgTicks : Tick(d)
    \/ \E u \in Urls : SetWebhookUrl(u)

SpecArgs == Init /\ [][NextArgs]_vars

\* A request flow and a second thread racing with it on the breaker.
ConcRacer == "f2"
ConcPhones == {Str("12345678")}
ConcPayloads == {[message |-> Str("hello")]}
ConcOutcomes == {Status(200), Status(500)}
ConcTicks == {30}

Next ==
    \/ \E p \in ConcPhones, d \in ConcPayloads :
           StartSendMessage(SeqFlow, p, d)
    \/ \E f \in Flows, p \in ConcPhones, d \in ConcPayloads :
           StartNotify(f, p, d)
    \/ StartStatus(SeqFlow)
    \/ StartReset(ConcRacer)
    \/ \E f \in Flows : Step(f, ConcOutcomes)
    \/ \E d \in ConcTicks : Tick(d)

Spec == InitConfigured /\ [][Next]_vars

\* The handlers with their storage, one request at a time.
StorePhones == {Str(""), Str(SampleNumbers[1]), Str("1234567")}
StoreContents == {Str(""), Str("hello")}
StoreOutcomes == {Status(200), Status(500), Timeout}
StoreTicks == {6, 58}
StoreIds == {1, Len(SampleNumbers) + 1, Len(SampleNumbers) + 2}

StepStore(f) ==
    \/ SmLookup(f) \/ (\E fault \in BOOLEAN : SmCreate(f, fault))
    \/ SmReload(f)
    \/ CmLookup(f)
    \/ CpLookup(f) \/ CpInsert(f)
    \/ RcLookup(f) \/ (\E fault \in BOOLEAN : RcCreate(f, fault))
    \/ TgRead(f) \/ (\E fault \in BOOLEAN : TgCommit(f, fault))

NextStore ==
    \/ \E p \in StorePhones, c \in StoreContents :
           ReqSendMessage(SeqFlow, p, c, NoAttachment)
    \/ \E p \in StorePhones : ReqAddPhone(SeqFlow, p)
    \/ StartStatus(SeqFlow)
    \/ StartReset(SeqFlow)
    \/ SmLookup(SeqFlow)
    \/ CmLookup(SeqFlow)
    \/ \E fault \in BOOLEAN : SmCreate(SeqFlow, fault)
    \/ SmReload(SeqFlow)
    \/ CpLookup(SeqFlow)
    \/ CpInsert(SeqFlow)
    \/ Step(SeqFlow, StoreOutcomes)
    \/ \E d \in StoreTicks : Tick(d)

SpecStore == Init /\ [][NextStore]_vars

\* Classification and storage, one request at a time, no endpoint
\* configured (every send_webhook returns at chat.py:156-159).
InitUnconfigured == Init /\ webhook_url = ""
KindPhones == {Str(SampleNumbers[1]), Str("1234567")}
KindContents == {Str("hello")}
KindIds == {1}
KindTicks == {6}

NextKinds ==
    \/ \E p \in KindPhones, c \in KindContents : ReqSendMessage(SeqFlow, p, c, NoAttachment)
    \/ \E p \in KindPhones, c \in KindContents : ReqReceive(SeqFlow, p, c, NoAttachment)
    \/ \E i \in KindIds : ReqToggleAi(SeqFlow, i)
    \/ StepStore(SeqFlow)
    \/ SwUrl(SeqFlow)
    \/ RtWake(SeqFlow)
    \/ RrRead(SeqFlow) \/ RrWrite(SeqFlow) \/ RrStamp(SeqFlow)
    \/ \E d \in KindTicks : Tick(d)

SpecKinds == InitUnconfigured /\ [][NextKinds]_vars

\* Two request threads on the database, no endpoint configured.
RacePhones == {Str("1234567")}
RaceContents == {Str("hello")}
RaceIds == {1}
RaceFaults == {FALSE}

NextStoreConc ==
    \/ \E f \in Flows, i \in RaceIds : ReqToggleAi(f, i)
    \/ \E f \in Flows, p \in RacePhones : ReqAddPhone(f, p)
    \/ \E f \in Flows, p \in RacePhones, c \in RaceContents :
           ReqReceive(f, p, c, NoAttachment)
    \/ \E f \in Flows : TgRead(f)
    \/ \E f \in Flows, fault \in RaceFaults : TgCommit(f, fault)
    \/ \E f \in Flows : CpLookup(f)
    \/ \E f \in Flows : CpInsert(f)
    \/ \E f \in Flows : RcLookup(f)
    \/ \E f \in Flows : CmLookup(f)
    \/ \E f \in Flows, fault \in RaceFaults : RcCreate(f, fault)
    \/ \E f \in Flows : SwUrl(f)

SpecStoreConc == InitUnconfigured /\ [][NextStoreConc]_vars

\* Message creation racing with the deletion of the conversation, no
\* endpoint configured.
CascadeIds == {1, Len(SampleNumbers) + 1}
CascadePhones == {Str(SampleNumbers[1]), Str("1234567")}

NextCascade ==
    \/ \E f \in Flows, p \in CascadePhones, c \in RaceContents :
           ReqReceive(f, p, c, NoAttachment)
    \/ \E f \in Flows, p \in CascadePhones, c \in RaceContents :
           ReqSendMessage(f, p, c, NoAttachment)
    \/ \E f \in Flows, i \in CascadeIds : ReqDeletePhone(f, i)
    \/ \E f \in Flows : RcLookup(f)
    \/ \E f \in Flows : SmLookup(f)
    \/ \E f \in Flows : CmLookup(f)
    \/ \E f \in Flows : CpLookup(f)
    \/ \E f \in Flows : CpInsert(f)
    \/ \E f \in Flows, fault \in RaceFaults : RcCreate(f, fault)
    \/ \E f \in Flows, fault \in RaceFaults : SmCreate(f, fault)
    \/ \E f \in Flows : SmReload(f)
    \/ \E f \in Flows : DlRead(f)
    \/ \E f \in Flows : DlLoad(f)
    \/ \E f \in Flows, fault \in RaceFaults : DlCommit(f, fault)
    \/ \E f \in Flows : SwUrl(f)

SpecCascade == InitUnconfigured /\ [][NextCascade]_vars

\* Messages with attachments, one request at a time, no endpoint
\* configured.  Sizes in KiB.
MaxAttachments == 1    \* no request arrives once this many messages are stored
Small == 100
Oversized == 60 * 1024
Huge == 3 * 1024 * 1024
RemoteUrl == "https://cdn.example/a.jpg"
FullUrl == "https://cdn.example/full/a.jpg"

Attachment(url, name, type, size) ==
    [url |-> url, full_url |-> PyNone, name |-> name, type |-> type,
     size |-> size]

Attachments ==
    {NoAttachment,
     Attachment(Str(" "), PyNone, PyNone, NoSize),
     Attachment(Str("/chat/uploads/a.jpg"), PyNone, PyNone, NoSize),
     Attachment(Str(RemoteUrl), Str(" a.jpg"), Str("image"), IntSize(Small)),
     Attachment(Str(RemoteUrl), PyNone, Str("spreadsheet"), IntSize(-5)),
     Attachment(Str(RemoteUrl), PyNone, PyNone, BadSize),
     Attachment(Str(RemoteUrl), PyNone, Str("video"), IntSize(Huge))}

\* send_message also reads attachment_full_url from the request
\* (chat.py:311); a url with a blank behind it, without and with a full url
Padded == Attachment(Str(RemoteUrl \o " "), PyNone, Str("image"), NoSize)
WithFullUrl == [Padded EXCEPT !.full_url = Str(FullUrl)]

AttachPhones == {Str(SampleNumbers[1])}
AttachContents == {Str(""), Str("hello")}
AttachFaults == {FALSE}            \* the database itself does not fail
Downloads ==
    {NetworkError} \cup
    {Response(k, cl, n, b) : k \in {"ok", "cut"},
                             cl \in {None, Small, Oversized},
                             n \in {"a.jpg", "a.exe"},
                             b \in {Small, Oversized}}

\* the requests that still arrive
Arriving == IF db.msg_seq < MaxAttachments THEN Attachments ELSE {}
ArrivingSent == Arriving \cup IF db.msg_seq < MaxAttachments
                              THEN {Padded, WithFullUrl} ELSE {}

NextAttach ==
    \/ \E p \in AttachPhones, c \in AttachContents, a \in ArrivingSent :
           ReqSendMessage(SeqFlow, p, c, a)
    \/ \E p \in AttachPhones, c \in AttachContents, a \in Arriving :
           ReqReceive(SeqFlow, p, c, a)
    \/ SmLookup(SeqFlow)
    \/ RcLookup(SeqFlow)
    \/ \E o \in Downloads : RcAttach(SeqFlow, o)
    \/ CmLookup(SeqFlow)
    \/ \E fault \in AttachFaults : SmCreate(SeqFlow, fault)
    \/ SmReload(SeqFlow)
    \/ \E fault \in AttachFaults : RcCreate(SeqFlow, fault)
    \/ SwUrl(SeqFlow)
    \/ RtWake(SeqFlow)
    \/ RrRead(SeqFlow) \/ RrWrite(SeqFlow) \/ RrStamp(SeqFlow)
    \/ \E d \in KindTicks : Tick(d)

SpecAttach == InitUnconfigured /\ [][NextAttach]_vars

\* The handlers that touch messages, one request at a time, and the
\* migration script run beside them; no endpoint configured.
MaintPhones == {Str(SampleNumbers[1])}
Confirmed == {TRUE}                \* the operator answers "y"

NextMaint ==
    \/ \E p \in MaintPhones, c \in KindContents :
           ReqSendMessage(SeqFlow, p, c, NoAttachment)
    \/ \E p \in MaintPhones, c \in KindContents :
           ReqReceive(SeqFlow, p, c, NoAttachment)
    \/ \E i \in KindIds : ReqToggleAi(SeqFlow, i)
    \/ \E i \in KindIds : ReqDeletePhone(SeqFlow, i)
    \/ StepStore(SeqFlow)
    \/ DlRead(SeqFlow) \/ DlLoad(SeqFlow)
    \/ \E fault \in BOOLEAN : DlCommit(SeqFlow, fault)
    \/ SwUrl(SeqFlow)
    \/ RtWake(SeqFlow)
    \/ RrRead(SeqFlow) \/ RrWrite(SeqFlow) \/ RrStamp(SeqFlow)
    \/ \E d \in KindTicks : Tick(d)
    \/ \E confirm \in Confirmed : MigrateMessageTypes(confirm)
    \/ \E confirm \in Confirmed : RollbackMigration(confirm)

SpecMaint == InitUnconfigured /\ [][NextMaint]_vars

\* An outbound send racing with a toggle of the same conversation; the
\* endpoint is configured and acknowledges every POST.
PayloadPhones == {Str(SampleNumbers[1])}
PayloadOutcomes == {Status(200)}

NextPayload ==
    \/ \E p \in PayloadPhones, c \in RaceContents :
           ReqSendMessage(SeqFlow, p, c, NoAttachment)
    \/ \E i \in RaceIds : ReqToggleAi(ConcRacer, i)
    \/ SmLookup(SeqFlow)
    \/ CmLookup(SeqFlow)
    \/ \E fault \in RaceFaults : SmCreate(SeqFlow, fault)
    \/ SmReload(SeqFlow)
    \/ TgRead(ConcRacer)
    \/ \E fault \in RaceFaults : TgCommit(ConcRacer, fault)
    \/ \E f \in Flows : SwUrl(f)
    \/ \E f \in Flows : CbFailures(f)
    \/ \E f \in Flows : SwPost(f)
    \/ \E f \in Flows, o \in PayloadOutcomes : SwResponse(f, o)
    \/ \E f \in Flows : RrRead(f)
    \/ \E f \in Flows : RrWrite(f)

SpecPayload == InitConfigured /\ [][NextPayload]_vars

\* Every way send_webhook can end: either URL setting, a payload that
\* json.dumps refuses, every transport outcome, and a second thread that
\* resets the breaker or reads its status between two statements.
TotalPayloads == {[message |-> Str("hello")], [message |-> PyCyclic]}
TotalTicks == {30}

NextTotal ==
    \/ \E p \in SeqPhones, d \in TotalPayloads :
           StartSendMessage(SeqFlow, p, d)
    \/ StartReset(ConcRacer)
    \/ StartStatus(ConcRacer)
    \/ \E f \in Flows : Step(f, Outcomes)
    \/ \E d \in TotalTicks : Tick(d)

SpecTotal == Init /\ [][NextTotal]_vars

\* send_webhook_with_retry as a function of max_retries, one thread.
RetryBudgets == 0 .. MaxRetries
RetryOutcomes == {Status(200), Status(500)}
RetryTicks == {5, 58}

StepRetry == Step(SeqFlow, RetryOutcomes)
TickRetry == \E d \in RetryTicks : Tick(d)

NextRetry ==
    \/ \E p \in SeqPhones, d \in SeqPayloads, n \in RetryBudgets :
           StartRetry(SeqFlow, p, d, n)
    \/ StartStatus(SeqFlow)
    \/ StartReset(SeqFlow)
    \/ StepRetry
    \/ TickRetry

\* the thread is scheduled, the POST ends (timeout), the clock runs
SpecRetry == InitConfigured /\ [][NextRetry]_vars
                 /\ WF_vars(StepRetry) /\ WF_vars(TickRetry)

----------------------------------------------------------------------------
(* Vocabulary of the properties (spec.md 4.3, 4.4) *)

\* Open: threshold reached and the cooldown window still running.
BreakerOpen ==
    /\ webhook_failures >= MAX_FAILURES_BEFORE_CIRCUIT_BREAK
    /\ last_failure_time # None
    /\ now - last_failure_time < CIRCUIT_BREAK_DURATION

\* Threshold reached and the window over: the next check must reset.
CooldownElapsed ==
    /\ webhook_failures >= MAX_FAILURES_BEFORE_CIRCUIT_BREAK
    /\ last_failure_time # None
    /\ now - last_failure_time >= CIRCUIT_BREAK_DURATION

Moved(f) == th'[f] # th[f]

CheckPcs == {"cb_failures", "cb_last", "cb_time"}
CooldownResetPcs == {"cb_reset_failures", "cb_reset_time"}
RecordPcs == {"rr_write", "rr_stamp"}
AdminResetPcs == {"rs_failures", "rs_time"}
PostPcs == {"sw_post", "sw_wait"}

Delivering(f) == th[f].op \in {"send_message", "notify", "retry"}

\* The envelope rule of spec.md 4.4 step 4, stated on its own.
EnvelopeOk(env) ==
    /\ \A k \in DOMAIN env : env[k] # PyCyclic
    /\ \A k \in RequiredFields : k \in DOMAIN env /\ env[k] # PyNone
    /\ env["phone_number"].ty = "str"
    /\ Len(env["phone_number"].s) >= 8

EnvelopeOf(f) == Envelope(EventType(th[f]), th[f].phone, th[f].data)

----------------------------------------------------------------------------
\* C1: in a sequential run every recordFailure raises the counter by exactly
\* one (so `threshold` of them from zero reach the threshold), a breaker check
\* that ends while the counter is at or above the threshold and the cooldown
\* window is running reports Open, and a recordSuccess at threshold-1 never
\* leaves the breaker Open.
C1_ThresholdOpens ==
    [][\A f \in Flows :
        /\ (th[f].pc = "rr_write" /\ ~th[f].arg /\ Moved(f))
               => webhook_failures' = webhook_failures + 1
        /\ (th[f].pc \in CheckPcs /\ BreakerOpen /\ Moved(f)
                /\ th'[f].pc \notin CheckPcs)
               => th'[f].broken
        /\ (th[f].pc = "rr_write" /\ th[f].arg /\ Moved(f)
                /\ webhook_failures = MAX_FAILURES_BEFORE_CIRCUIT_BREAK - 1)
               => ~BreakerOpen'
      ]_vars

\* a check has just reported Open with the counter exactly at the threshold
C1_Witness ==
    \E f \in Flows :
        /\ th[f].broken
        /\ th[f].task = "retry"
        /\ webhook_failures = MAX_FAILURES_BEFORE_CIRCUIT_BREAK
        /\ BreakerOpen

----------------------------------------------------------------------------
\* C2 as claimed: once Open, the breaker leaves Open only when cooldown
\* seconds have passed since lastFailureTimestamp, unless the step is one of
\* the administrative reset.  Steps that write back a stale read (a lost
\* update, C7) or finish a cooldown reset decided earlier are left out, so
\* that what refutes the claim is not a data race.
C2_OpenUntilCooldown ==
    [][(/\ BreakerOpen
        /\ ~BreakerOpen'
        /\ ~\E f \in Flows : th[f].pc \in AdminResetPcs /\ Moved(f)
        /\ \A f \in Flows :
              /\ th[f].pc = "rr_write" => th[f].tmp = webhook_failures
              /\ th[f].pc \notin CooldownResetPcs)
           => now' - last_failure_time >= CIRCUIT_BREAK_DURATION
      ]_vars

\* C2 amended: while the breaker is Open no breaker check closes it: a step
\* of is_circuit_broken taken while the breaker is Open neither reports
\* Closed nor starts the cooldown reset nor writes the counter or timestamp.
C2_NoCheckClosesOpenBreaker ==
    [][\A f \in Flows :
        (th[f].pc \in CheckPcs /\ BreakerOpen /\ Moved(f))
           => /\ th'[f].pc \in CheckPcs \/ th'[f].broken
              /\ th'[f].pc \notin CooldownResetPcs
              /\ webhook_failures' = webhook_failures
              /\ last_failure_time' = last_failure_time
      ]_vars

\* a check reported Open while the other thread has a POST in flight
C2_Witness ==
    /\ BreakerOpen
    /\ th["f1"].broken /\ th["f1"].pc = "rt_sleep"
    /\ th["f2"].pc = "sw_wait"

----------------------------------------------------------------------------
\* C3: a send_message whose inline attempt and retry attempts were all
\* skipped by the open breaker (it issued no POST, its last check reported
\* Open) never changes the counter or the timestamp.
C3_SuppressedSendNotCounted ==
    [][\A f \in Flows :
        (/\ th[f].op = "send_message"
         /\ th[f].nposts = 0
         /\ th[f].log = "circuit_active"
         /\ th[f].pc \in RecordPcs
         /\ Moved(f))
           => /\ webhook_failures' = webhook_failures
              /\ last_failure_time' = last_failure_time
      ]_vars

----------------------------------------------------------------------------
\* C4 as claimed: no POST is started in a state where the breaker is Open.
C4_NoPostWhileOpen ==
    [][\A f \in Flows :
        (th[f].pc = "sw_post" /\ th'[f].pc = "sw_wait") => ~BreakerOpen
      ]_vars

\* C4 amended: a deliver whose own breaker check reports Open returns false
\* and issues no POST; a deliver about to POST had its check report Closed.
C4_OpenCheckSkipsPost ==
    [][\A f \in Flows :
        /\ (Delivering(f) /\ th[f].pc \in CheckPcs /\ Moved(f)
                /\ th'[f].broken)
              => /\ th'[f].pc \notin PostPcs
                 /\ ~th'[f].res
                 /\ th'[f].nposts = IF th'[f].pc = "idle" THEN 0
                                    ELSE th[f].nposts
        /\ th'[f].pc \in PostPcs => ~th'[f].broken
      ]_vars

\* a send_message found the breaker Open and went to its retry sleep
\* without a single POST
C4_Witness ==
    \E f \in Flows :
        /\ th[f].broken /\ th[f].task = "retry" /\ th[f].pc = "rt_sleep"
        /\ th[f].nposts = 0 /\ ~th[f].res

----------------------------------------------------------------------------
\* C5: in a sequential run a check made when the threshold is reached and
\* cooldown seconds have passed since lastFailureTimestamp goes to the
\* reset, and the reset leaves the counter 0 and the timestamp cleared,
\* reports Closed and sends the (valid) delivery on to its POST.
C5_CooldownResetThenPost ==
    [][\A f \in Flows :
        /\ (th[f].pc \in CheckPcs /\ CooldownElapsed /\ Moved(f))
              => th'[f].pc \in CheckPcs \cup {"cb_reset_failures"}
        /\ (th[f].pc \in CooldownResetPcs /\ Moved(f)
                /\ th'[f].pc \notin CooldownResetPcs)
              => /\ webhook_failures' = 0
                 /\ last_failure_time' = None
                 /\ ~th'[f].broken
                 /\ (Delivering(f) /\ EnvelopeOk(EnvelopeOf(f)))
                        => th'[f].pc = "sw_post"
      ]_vars

\* a delivery's check is in the middle of the cooldown reset
C5_Witness ==
    \E f \in Flows :
        /\ Delivering(f)
        /\ th[f].pc = "cb_reset_time"
        /\ webhook_failures = 0
        /\ last_failure_time # None
        /\ now - last_failure_time >= CIRCUIT_BREAK_DURATION

----------------------------------------------------------------------------
\* C6: every recording belongs to one network attempt (it is made by
\* send_webhook for the POST that just ended) and moves the counter by
\* exactly one: down, floored at 0, for a 2xx, up with a fresh stamp for a
\* 4xx/5xx or a transport error.
C6_RecordingsMatchAttempts ==
    [][\A f \in Flows :
        /\ (th[f].pc = "rr_write" /\ Moved(f))
              => /\ th[f].site = "post"
                 /\ Is2xx(th[f].resp)
                        => webhook_failures' = Max(0, webhook_failures - 1)
                 /\ (th[f].resp.kind # "status"
                         \/ RaisesForStatus(th[f].resp.code))
                        => webhook_failures' = webhook_failures + 1
        /\ (th[f].pc = "rr_stamp" /\ Moved(f))
              => th[f].site = "post" /\ last_failure_time' = now
      ]_vars

----------------------------------------------------------------------------
\* C7: the read and the write of a recording are one critical section: the
\* counter a thread is about to write back is computed from the value the
\* counter still has (no lost update).
C7_NoLostUpdate ==
    \A f \in Flows : th[f].pc = "rr_write" => th[f].tmp = webhook_failures

----------------------------------------------------------------------------
\* C8: send_webhook records a success (and returns true) exactly when the
\* POST was answered with a 2xx status.
C8_SuccessIffTwoXX ==
    [][\A f \in Flows :
        (th[f].pc = "sw_wait" /\ Moved(f))
           => (th'[f].arg <=> Is2xx(th'[f].resp))
      ]_vars

----------------------------------------------------------------------------
\* C9: a flow whose envelope is invalid, and whose last attempt was rejected
\* by the validation, never raises the counter and never stamps
\* lastFailureTimestamp.
C9_InvalidEnvelopeNotCounted ==
    [][\A f \in Flows :
        (/\ Delivering(f) /\ ~EnvelopeOk(EnvelopeOf(f))
         /\ th[f].log = "validation_failed"
         /\ Moved(f))
           => /\ webhook_failures' <= webhook_failures
              /\ last_failure_time' \in {last_failure_time, None}
      ]_vars

----------------------------------------------------------------------------
\* C10: a delivery whose envelope is invalid is never at the POST, has
\* issued no POST and has not returned true.
C10_NoPostForInvalidEnvelope ==
    \A f \in Flows :
        (Delivering(f) /\ ~EnvelopeOk(EnvelopeOf(f)))
           => /\ th[f].pc \notin PostPcs
              /\ th[f].nposts = 0
              /\ ~th[f].res

\* an invalid envelope was rejected with the endpoint configured and the
\* breaker Closed, and the flow is now between retry attempts
C10_Witness ==
    \E f \in Flows :
        /\ Delivering(f) /\ ~EnvelopeOk(EnvelopeOf(f))
        /\ th[f].pc = "rt_sleep" /\ th[f].attempt = 2
        /\ th[f].log = "validation_failed"
        /\ th[f].nposts = 0

----------------------------------------------------------------------------
\* C11: while no endpoint is configured the webhook is a no-op: a flow that
\* has issued no POST and whose last deliver returned for the missing
\* endpoint changes neither the counter nor the timestamp, and no POST is
\* started.
C11_UnconfiguredIsNoOp ==
    [][\A f \in Flows :
        /\ (/\ webhook_url = ""
            /\ th[f].log = "no_url"
            /\ th[f].nposts = 0
            /\ Moved(f))
              => /\ webhook_failures' = webhook_failures
                 /\ last_failure_time' = last_failure_time
        /\ (webhook_url = "" /\ th[f].pc = "sw_url" /\ Moved(f))
              => th'[f].pc \notin PostPcs
      ]_vars

----------------------------------------------------------------------------
\* The model's clock cannot advance any more.
ClockStopped == \A d \in RetryTicks : now + d > MaxTime

\* min(2^k, 5) for k >= 1, as spec.md 4.4 lists it: 2, 4, 5, 5, ...
SpecDelay(k) == IF k = 1 THEN 2 ELSE IF k = 2 THEN 4 ELSE 5

----------------------------------------------------------------------------
----------------------------------------------------------------------------
\* C13: the retry thread starts its attempt 0 without sleeping, it sleeps
\* only before an attempt k >= 1 and then for min(2^k, 5) seconds, and it
\* goes on to attempt k only when that time has passed.
C13_BackoffDelays ==
    [][\A f \in Flows :
        /\ (th'[f].task = "retry" /\ (th[f].task # "retry" \/ th[f].pc = "idle"))
              => th'[f].attempt = 0 /\ th'[f].pc = "sw_url"
        /\ (th'[f].pc = "rt_sleep" /\ th[f].pc # "rt_sleep")
              => /\ th'[f].attempt >= 1
                 /\ th'[f].wake = now + SpecDelay(th'[f].attempt)
        /\ (th[f].pc = "rt_sleep" /\ Moved(f))
              => /\ now >= th[f].wake
                 /\ th'[f].pc = "sw_url"
                 /\ th'[f].attempt = th[f].attempt
      ]_vars

\* the thread sleeps 5 s (not 8) before attempt 3
C13_Witness ==
    \E f \in Flows :
        /\ th[f].pc = "rt_sleep" /\ th[f].attempt = 3
        /\ th[f].wake = now + 5

----------------------------------------------------------------------------
\* Where a flow is inside the delivery engine (send_webhook, the recording,
\* the retry sleep).
DeliveryPcs == {"sw_url", "rr_read", "rt_sleep"} \cup CheckPcs
                   \cup CooldownResetPcs \cup PostPcs \cup RecordPcs

Stored(id) == \E m \in db.messages : m.id = id

----------------------------------------------------------------------------
----------------------------------------------------------------------------
\* C15: once a send stored its message, the message stays stored, the
\* answer (when it is out) is a success, and no step of the delivery engine
\* touches the database.
C15_StoredMessageAnswersSuccess ==
    /\ [](\A f \in Flows :
            th[f].message_id # 0
               => /\ Stored(th[f].message_id)
                  /\ th[f].http \in {0, HttpOk})
    /\ [][\A f \in Flows :
            /\ (th[f].pc \in DeliveryPcs /\ Moved(f)) => db' = db
            /\ (th[f].op = "send_message" /\ th[f].message_id # 0
                    /\ th[f].http = 0 /\ th'[f].http # 0)
                  => th'[f].http = HttpOk
         ]_vars

\* a stored message whose inline attempt and three retry attempts all
\* failed; the answer was a success
C15_Witness ==
    \E f \in Flows :
        /\ th[f].op = "send_message" /\ th[f].site = "retry_fail"
        /\ th[f].nposts = SendMessageRetries + 2
        /\ th[f].http = HttpOk /\ Stored(th[f].message_id)

----------------------------------------------------------------------------
\* C16: when create_message stores nothing, the request ends at once with
\* status 500 and never enters the delivery engine: an outbound send that
\* is inside the engine has its message stored.
C16_NoDeliveryWithoutMessage ==
    /\ [](\A f \in Flows :
            (th[f].op = "send_message" /\ th[f].pc \in DeliveryPcs)
               => th[f].message_id # 0 /\ Stored(th[f].message_id))
    /\ [][\A f \in Flows :
            (th[f].pc = "sm_create" /\ Moved(f)
                 /\ db'.messages = db.messages)
               => /\ th'[f].pc = "idle"
                  /\ th'[f].http = HttpError
                  /\ th'[f].message_id = 0
                  /\ th'[f].log = "none"
         ]_vars

\* a send ended with status 500 without a stored message and without having
\* called send_webhook
C16_Witness ==
    \E f \in Flows :
        /\ th[f].pc = "idle" /\ th[f].http = HttpError
        /\ th[f].message_id = 0 /\ th[f].log = "none"
        /\ db.messages = {}

----------------------------------------------------------------------------
\* classify(direction, conversation) of spec.md 4.1
Classify(outbound, automationActive) ==
    IF ~outbound THEN "lead" ELSE IF automationActive THEN "ai" ELSE "user"

KindsOf(number) ==
    {m.type : m \in {x \in db.messages :
                        x.phone_number_id = get_phone_by_number(db, number).id}}

\* C17: with requests served one at a time, a message stored by an outbound
\* send has the kind 'ai' if the flag of its conversation is true when it is
\* stored and 'user' otherwise, a message stored by an inbound receive has
\* the kind 'lead', and no step changes or removes a stored message.
C17_KindIsClassificationAtCreation ==
    [][/\ db.messages \subseteq db'.messages
       /\ \A f \in Flows :
            (Moved(f) /\ db'.messages # db.messages)
               => LET m == CHOOSE x \in db'.messages : x \notin db.messages
                      conv == get_phone_by_number(db', th[f].phone.s)
                  IN /\ db'.messages = db.messages \cup {m}
                     /\ m.phone_number_id = conv.id
                     /\ m.type = Classify(th[f].op = "send_message",
                                          conv.ai_active)
      ]_vars

\* the scenario of spec.md 8: flag false, send -> 'user'; toggle; send ->
\* 'ai'; receive -> 'lead'
C17_Witness ==
    /\ KindsOf(SampleNumbers[1]) = {"user", "ai", "lead"}
    /\ \E m1, m2, m3 \in db.messages :
          /\ m1.id < m2.id /\ m2.id < m3.id
          /\ m1.type = "user" /\ m2.type = "ai" /\ m3.type = "lead"
          /\ {m1.phone_number_id, m2.phone_number_id, m3.phone_number_id}
                 = {1}
    /\ get_phone_by_number(db, SampleNumbers[1]).ai_active

----------------------------------------------------------------------------
\* C18: in every state the stored flag of a conversation is its initial
\* value (false) flipped once per committed toggle: true exactly when the
\* number of committed toggles is odd.
C18_ToggleNoLostUpdate ==
    \A r \in db.phones : r.ai_active = db.toggles[r.id]

----------------------------------------------------------------------------
\* C19: the step of a toggle that commits stores the value the toggle then
\* reports: the stored flag equals new_status of the answer and of the
\* ai_toggle event, previous_status is its negation, and the value to report
\* does not change until the answer is out.
C19_ToggleReportsStoredValue ==
    [][\A f \in Flows :
        /\ (th[f].pc = "tg_commit" /\ th'[f].pc = "sw_url")
              => LET stored == get_phone_by_id(db', th[f].phone_id).ai_active
                 IN /\ th'[f].new_ai_status = stored
                    /\ th'[f].data.new_status = PyBool(stored)
                    /\ th'[f].data.previous_status = PyBool(~stored)
        /\ (th[f].op = "toggle_ai" /\ th[f].pc \in DeliveryPcs /\ Moved(f))
              => /\ th'[f].new_ai_status = th[f].new_ai_status
                 /\ th'[f].pc = "idle" => th'[f].http = HttpOk
      ]_vars

\* a toggle has committed on a flag that another toggle changed after this
\* one had read it (two committed toggles, flag still true)
C19_Witness ==
    \E f \in Flows :
        /\ th[f].op = "toggle_ai" /\ th[f].pc = "sw_url"
        /\ th[f].new_ai_status
        /\ get_phone_by_id(db, th[f].phone_id).ai_active
        /\ ~db.toggles[th[f].phone_id]

----------------------------------------------------------------------------
\* C20: no two rows of phone_numbers have the same number.
C20_OneConversationPerNumber ==
    \A r1, r2 \in db.phones : r1.number = r2.number => r1 = r2

\* two create_phone_number calls raced for a new number: one row is stored
\* and the call that lost has answered
C20_Witness ==
    \E f \in Flows :
        /\ th[f].pc = "idle" /\ th[f].http = HttpError
        /\ Cardinality({r \in db.phones : r.number = "1234567"}) = 1

----------------------------------------------------------------------------
\* C22: every stored message references a phone row that exists, and a
\* delete_phone whose commit goes through leaves no message of that phone.
MessagesHaveAPhone ==
    \A m \in db.messages : \E r \in db.phones : r.id = m.phone_number_id

C22_NoOrphanMessage ==
    /\ []MessagesHaveAPhone
    /\ [][\A f \in Flows :
              (th[f].pc = "dl_commit" /\ th'[f].pc = "sw_url")
                 => MessagesOf(db', th[f].phone_id) = {}
         ]_vars

\* a delete removed a phone together with its messages while another
\* request's INSERT for that phone was refused
C22_Witness ==
    \E f, g \in Flows :
        /\ th[f].op = "delete_phone" /\ th[f].pc = "sw_url"
        /\ th[f].loaded # {}
        /\ get_phone_by_id(db, th[f].phone_id) = NoRow
        /\ th[g].http = HttpError

\* C21: a create_phone_number call that gets as far as its INSERT returns a
\* row for the number, the one it inserted or the one that is already there,
\* and its request is not answered with an error.
C21_CreateRaceReturnsExisting ==
    [][\A f \in Flows :
        (th[f].pc = "cp_insert" /\ Moved(f))
           => /\ th'[f].http # HttpError
              /\ th'[f].phone_id =
                     get_phone_by_number(db', th[f].phone.s).id
      ]_vars

\* C23: when receive_message has stored an inbound message, the flow goes
\* on into send_webhook with a message event for it.
C23_InboundMessageIsDelivered ==
    [][\A f \in Flows :
        (/\ th[f].op = "receive" /\ th[f].pc = "rc_create"
         /\ \E m \in db'.messages \ db.messages : m.type = "lead")
           => th'[f].pc = "sw_url"
      ]_vars

\* C24: when the one send_webhook call of a request handler returns after a
\* failed POST, whatever the event type, a retry thread is started.
RequestOps == {"send_message", "toggle_ai", "add_phone", "delete_phone"}

C24_EveryFailedAttemptRetries ==
    [][\A f \in Flows :
        (/\ th[f].task = "request" /\ th[f].op \in RequestOps
         /\ th[f].log # "failed" /\ th'[f].log = "failed")
           => th'[f].task = "retry"
      ]_vars

\* C25: reset_webhook_circuit leaves the counter at 0 and the timestamp
\* cleared whatever they were, and an is_circuit_broken call that starts in
\* that state returns False at once, without touching either.
BreakerCleared == webhook_failures = 0 /\ last_failure_time = None

C25_ResetClosesBreaker ==
    [][\A f \in Flows :
        /\ (th[f].pc = "rs_failures" /\ Moved(f)) => webhook_failures' = 0
        /\ (th[f].pc = "rs_time" /\ Moved(f)) => BreakerCleared'
        /\ (th[f].pc = "cb_failures" /\ Moved(f) /\ BreakerCleared)
              => /\ ~th'[f].broken
                 /\ th'[f].pc \notin CheckPcs \cup CooldownResetPcs
                 /\ BreakerCleared'
      ]_vars

\* the reset is half done on a breaker that had recorded a failure: the
\* counter is back at 0 and the failure is still stamped, inside the cooldown
C25_Witness ==
    \E f \in Flows :
        /\ th[f].op = "reset" /\ th[f].pc = "rs_time"
        /\ webhook_failures = 0
        /\ last_failure_time # None
        /\ WithinCooldown(now, last_failure_time)

\* C26: every stored message that has an attachment has one of the six
\* attachment types and a size that is a positive integer or absent.
HasAttachment(m) == m.attachment_url # PyNone

C26_AttachmentTypeAndSizeClean ==
    \A m \in db.messages :
        HasAttachment(m)
           => /\ m.attachment_type.ty = "str"
              /\ m.attachment_type.s \in valid_types
              /\ (m.attachment_size = None \/ m.attachment_size > 0)

\* an inbound message whose download failed is stored with the remote url,
\* its unknown or missing type as 'file' and its invalid size dropped
C26_Witness ==
    \E m \in db.messages :
        /\ m.type = "lead"
        /\ m.attachment_url = Str(RemoteUrl)
        /\ m.attachment_type = Str("file")
        /\ m.attachment_size = None

\* C27: when receive_message fell back to the remote url of an external
\* attachment (its download failed), the message is stored with that url as
\* attachment url and full url, and the request is answered with success.
External(a) == /\ PyTruthy(a.url)
               /\ ~StartsWith(a.url.s, "/chat/uploads/")
               /\ Fetchable(a.url.s)

C27_FailedFetchStillStored ==
    [][\A f \in Flows :
        (/\ th[f].op = "receive" /\ th[f].pc = "rc_create" /\ Moved(f)
         /\ External(th[f].att)
         /\ th[f].final.url = th[f].att.url)
           => /\ th'[f].http = HttpOk
              /\ \E m \in db'.messages \ db.messages :
                     /\ m.attachment_url = th[f].att.url
                     /\ m.attachment_full_url = th[f].att.url
      ]_vars

\* C28: no file larger than MAX_UPLOAD_SIZE is in the upload directory.
C28_DownloadCeiling ==
    \A size \in db.uploads : size <= MAX_UPLOAD_SIZE

\* C29: a stored message has content that is not null and has text or an
\* attachment url; a request with neither is answered 400 and stores
\* nothing.
C29_ContentOrAttachment ==
    /\ [](\A m \in db.messages :
             /\ m.content # PyNone
             /\ PyTruthy(m.content) \/ PyTruthy(m.attachment_url))
    /\ [][\A f \in Flows :
              (/\ th[f].pc = "idle" /\ th'[f].pc # "idle"
               /\ th'[f].op \in {"send_message", "receive"})
                 => ~NothingToStore(th'[f].content, th'[f].att)
         ]_vars

\* C30: a step leaves every stored message as it is, or removes it together
\* with the phone row it belongs to.
C30_MessagesImmutable ==
    [][\A m \in db.messages :
          \/ m \in db'.messages
          \/ /\ \A m2 \in db'.messages : m2.id # m.id
             /\ get_phone_by_id(db, m.phone_number_id) # NoRow
             /\ get_phone_by_id(db', m.phone_number_id) = NoRow
      ]_vars

\* C31: a send_message or receive_message request for a number that has no
\* phone row goes on to create the row (and then stores its message
\* against it) instead of being answered.
C31_FirstMessageCreatesPhone ==
    [][\A f \in Flows :
        (/\ th[f].pc \in {"sm_lookup", "rc_lookup"}
         /\ get_phone_by_number(db, th[f].phone.s) = NoRow
         /\ Moved(f))
           => th'[f].pc = "cp_lookup"
      ]_vars

\* A flow is inside a send_webhook call (chat.py:155-240), its except
\* clauses and their record_webhook_result(False) included.
InSendWebhook(t) ==
    /\ t.op \in {"send_message", "notify", "retry"}
    /\ \/ t.pc \in {"sw_url"} \cup CheckPcs \cup CooldownResetPcs \cup PostPcs
       \/ t.pc \in {"rr_read"} \cup RecordPcs /\ t.site \in {"post", "exc"}

\* the log line of each `return` of send_webhook
ReturnLogs == {"no_url", "circuit_active", "validation_failed", "sent",
               "failed"}

\* C32: send_webhook always returns a boolean: a step of a flow inside the
\* call either stays inside it or returns True after "sent" or False after
\* one of the other four log lines; an error raised inside the call (the
\* TypeError of is_circuit_broken, a POST that did not succeed) goes to
\* record_webhook_result(False) inside the call; and the retry thread ends
\* only after its own last record_webhook_result.
C32_SendWebhookIsTotal ==
    [][\A f \in Flows :
        /\ (InSendWebhook(th[f]) /\ Moved(f))
              => \/ InSendWebhook(th'[f]) /\ th'[f].task = th[f].task
                 \/ /\ th'[f].log \in ReturnLogs
                    /\ th'[f].res = (th'[f].log = "sent")
        /\ (/\ InSendWebhook(th[f]) /\ th[f].pc = "cb_time"
            /\ last_failure_time = None /\ Moved(f))
              => th'[f].pc = "rr_read" /\ th'[f].site = "exc" /\ ~th'[f].arg
        /\ (/\ th[f].pc = "sw_wait" /\ Moved(f)
            /\ ~PostSucceeded(th'[f].resp))
              => th'[f].pc = "rr_read" /\ ~th'[f].arg
        /\ (th[f].task = "retry" /\ Moved(f) /\ th'[f].pc = "idle")
              => /\ th[f].pc \in RecordPcs
                 /\ th[f].site \in {"retry_ok", "retry_fail"}
      ]_vars

\* the TypeError was raised in a retry thread's send_webhook call and is
\* being recorded as a failure
C32_Witness ==
    \E f \in Flows :
        /\ th[f].task = "retry" /\ th[f].site = "exc"
        /\ th[f].pc = "rr_stamp"

\* C33: the row create_message inserts for an attachment has, as full url,
\* the full url it was given, and without one its own (stripped)
\* attachment url.
C33_FullUrlFallsBackToUrl ==
    [][\A f \in Flows :
        (th[f].pc \in {"sm_create", "rc_create"} /\ PyTruthy(th[f].final.url))
           => \A m \in db'.messages \ db.messages :
                 m.attachment_full_url =
                     IF PyTruthy(th[f].final.full_url)
                     THEN th[f].final.full_url
                     ELSE m.attachment_url
      ]_vars

\* An attempt of the flow's message has succeeded: the POST came back
\* without an error status and is being recorded, or the retry thread is
\* recording the success of its loop.
Succeeded(t) ==
    \/ t.site = "post" /\ PostSucceeded(t.resp)
    \/ t.site = "retry_ok"

\* C34: the attempts for one outbound message come one after the other and
\* stop at the first success: a POST is started only while no attempt of
\* the message has returned True and none is under way; the retry thread
\* starts in the step in which the synchronous attempt returns False, at
\* attempt 0; a sleeping retry thread has a failed attempt behind it; and
\* after a POST that succeeded (every 2xx does) the flow only records the
\* success and ends, so that at most one attempt is acknowledged with 2xx.
C34_AttemptsSequentialOneSuccess ==
    [][\A f \in Flows :
        th[f].op = "send_message" =>
          /\ (th[f].pc = "sw_post" /\ Moved(f))
                => /\ ~th[f].res /\ th[f].resp = NoResp
                   /\ th'[f].pc = "sw_wait"
                   /\ th'[f].nposts = th[f].nposts + 1
          /\ (th[f].pc = "sw_wait" /\ Moved(f) /\ Is2xx(th'[f].resp))
                => Succeeded(th'[f])
          /\ (th[f].task = "request" /\ th'[f].task = "retry")
                => /\ th[f].pc \in {"sw_url"} \cup CheckPcs
                                     \cup CooldownResetPcs \cup RecordPcs
                   /\ ~th'[f].res /\ th'[f].attempt = 0
          /\ (th'[f].pc = "rt_sleep" /\ Moved(f))
                => ~th'[f].res /\ th'[f].attempt = th[f].attempt + 1
          /\ (Succeeded(th[f]) /\ Moved(f))
                => /\ th'[f].nposts = th[f].nposts \/ th'[f].pc = "idle"
                   /\ \/ th'[f].pc = "idle"
                      \/ Succeeded(th'[f]) /\ th'[f].pc \in {"rr_read", "rr_write"}
      ]_vars

\* attempt 1 of the retry thread is acknowledged with 200, the third POST of
\* the message, after the synchronous attempt and attempt 0 have failed
C34_Witness ==
    \E f \in Flows :
        /\ th[f].op = "send_message" /\ th[f].task = "retry"
        /\ th[f].attempt = 1 /\ th[f].nposts = 3
        /\ th[f].pc = "rr_read" /\ th[f].site = "post"
        /\ th[f].resp = Status(200)

C36_PayloadKindMatchesFlag ==
    \A f \in Flows :
        (th[f].op = "send_message" /\ th[f].pc \in PostPcs)
           => /\ \E m \in db.messages :
                    /\ m.id = th[f].message_id
                    /\ th[f].data.message_type = Str(m.type)
              /\ (th[f].data.message_type = Str("ai"))
                    <=> (th[f].data.ai_active = PyBool(TRUE))

\* No thread is between the two assignments of record_webhook_result
\* (chat.py:84-85), of reset_webhook_circuit (chat.py:596-597) or of the
\* reset in is_circuit_broken (chat.py:74-75).
BetweenAssignments(f) == th[f].pc \in {"rr_stamp", "rs_time", "cb_reset_time"}

\* C37: whenever the counter is above 0 the timestamp is set, in every
\* state in which no thread is half way through updating the two.
C37_CounterImpliesTimestamp ==
    (\A f \in Flows : ~BetweenAssignments(f))
       => (webhook_failures > 0 => last_failure_time # None)

\* C38: no step of a webhook_status request changes the counter or the
\* timestamp.
C38_StatusIsReadOnly ==
    [][\A f \in Flows :
        (th[f].op = "status" /\ Moved(f))
           => /\ webhook_failures' = webhook_failures
              /\ last_failure_time' = last_failure_time
      ]_vars

\* C39: an add_phone request whose number already has a phone row inserts
\* nothing and is answered without calling send_webhook.
C39_PhoneAddedOnlyWhenCreated ==
    [][\A f \in Flows :
        (/\ th[f].op = "add_phone" /\ th[f].pc = "cp_lookup" /\ Moved(f)
         /\ get_phone_by_number(db, th[f].phone.s) # NoRow)
           => /\ db' = db
              /\ th'[f].pc = "idle"
      ]_vars

\* a stored message has a name, a type, a size or a full url of an attachment
CarriesMetadata(m) ==
    \/ m.attachment_name # PyNone
    \/ m.attachment_type # PyNone
    \/ m.attachment_size # None
    \/ m.attachment_full_url # PyNone

\* C40: a stored message has attachment metadata exactly when its stored
\* attachment url is a string that is not empty.
C40_MetadataIffUrl ==
    \A m \in db.messages : CarriesMetadata(m) <=> PyTruthy(m.attachment_url)

============================================================================
